---- MODULE Spec2Model ----
(***************************************************************************)
(* A model of tools/uf2_merge.py: the UF2 block (UF2Block), the UF2 file   *)
(* container (UF2File) with its scans, the littlefs image converter        *)
(* (read_image) and the merge pipeline (merge_uf2_littlefs).               *)
(*                                                                         *)
(* Representation                                                          *)
(*  - A Python bytes value / ctypes byte array is a run-length sequence    *)
(*    <<  <<value, count>>, ... >>: 476 zero bytes are << <<0, 476>> >>.   *)
(*    Sizes, offsets and addresses are in bytes, as in the source.         *)
(*  - A UF2Block object lives in `heap`; its identity is its index there.  *)
(*    A UF2File holds indices, so that two containers can hold the same    *)
(*    object, as they do after UF2File.extend.                             *)
(*  - A Python dict is a sequence of <<key, value>> pairs in insertion     *)
(*    order.                                                               *)
(*  - A c_uint32 field keeps its value modulo UINT32_MOD.  TLC's integers  *)
(*    are 32-bit signed, so the width is modelled as 2^30 instead of 2^32. *)
(***************************************************************************)
EXTENDS Integers, Sequences, FiniteSets, TLC

\* ------------------------------------------------------------------------
\* Constants of the UF2 format (uf2_merge.py:31-43, 61; uf2conv for magics)
\* ------------------------------------------------------------------------
UF2_NOFLASH == 1
UF2_FILE_CONTAINER == 4096
UF2_FAMILY_ID_PRESENT == 8192
UF2_MD5_PRESENT == 16384
UF2_EXTENSION_TAGS_PRESENT == 32768
UF2_BLOCK_SIZE == 512
UF2_DATA_SIZE == 476

\* 0x0A324655, 0x9E5D5157 (kept modulo the modelled width), 0x0AB16F30
UF2_MAGIC_START0 == 171066965
UF2_MAGIC_START1 == 509431127
UF2_MAGIC_END == 179400496

\* b"\xF0\x0F\xFF\xF7littlefs/\xE0\x00\x10"
LITTLEFS_MARKER ==
  <<240, 15, 255, 247, 108, 105, 116, 116, 108, 101, 102, 115, 47, 224, 0, 16>>

\* the block size the littlefs scan aligns on (block.targetAddr % 4096)
LFS_ALIGN == 4096

\* the modelled width of a c_uint32 field (see the module comment)
UINT32_MOD == 1073741824

\* ------------------------------------------------------------------------
\* Python bytes as run-length sequences
\* ------------------------------------------------------------------------
RECURSIVE BLen(_)
BLen(b) == IF b = <<>> THEN 0 ELSE b[1][2] + BLen(Tail(b))

\* b[i], i counted from 0, 0 <= i < len(b)
RECURSIVE BAt(_, _)
BAt(b, i) == IF i < b[1][2] THEN b[1][1] ELSE BAt(Tail(b), i - b[1][2])

\* b[:n]
RECURSIVE BTake(_, _)
BTake(b, n) ==
  IF n <= 0 \/ b = <<>> THEN <<>>
  ELSE IF b[1][2] <= n THEN <<b[1]>> \o BTake(Tail(b), n - b[1][2])
  ELSE << <<b[1][1], n>> >>

\* b[n:]
RECURSIVE BDrop(_, _)
BDrop(b, n) ==
  IF n <= 0 \/ b = <<>> THEN b
  ELSE IF b[1][2] <= n THEN BDrop(Tail(b), n - b[1][2])
  ELSE << <<b[1][1], b[1][2] - n>> >> \o Tail(b)

\* b[lo:hi] for 0 <= lo
BSlice(b, lo, hi) == BTake(BDrop(b, lo), hi - lo)

\* the canonical form: no empty run, no two adjacent runs of one value
RECURSIVE BNorm(_)
BNorm(b) ==
  IF b = <<>> THEN <<>>
  ELSE IF b[1][2] <= 0 THEN BNorm(Tail(b))
  ELSE LET r == BNorm(Tail(b)) IN
       IF r # <<>> /\ r[1][1] = b[1][1]
       THEN << <<b[1][1], b[1][2] + r[1][2]>> >> \o Tail(r)
       ELSE <<b[1]>> \o r

\* b"\x00" * n
BZeros(n) == IF n > 0 THEN << <<0, n>> >> ELSE <<>>

\* a + b
BCat(a, b) == BNorm(a \o b)

\* a bytes literal given byte by byte
BOf(s) == BNorm([i \in 1..Len(s) |-> <<s[i], 1>>])

\* the offsets at which byte v occurs in b, b starting at offset off
RECURSIVE BOffsetsOf(_, _, _)
BOffsetsOf(b, v, off) ==
  IF b = <<>> THEN {}
  ELSE (IF b[1][1] = v THEN off..(off + b[1][2] - 1) ELSE {})
       \cup BOffsetsOf(Tail(b), v, off + b[1][2])

\* needle in b, for a non-empty needle given byte by byte: some offset of b
\* carries the needle's first byte and the rest of the needle follows it
BIn(needle, b) ==
  \E s \in BOffsetsOf(b, needle[1], 0) :
     /\ s + Len(needle) <= BLen(b)
     /\ \A j \in 1..Len(needle) : BAt(b, s + j - 1) = needle[j]

\* ------------------------------------------------------------------------
\* Python values whose type decides a comparison
\* ------------------------------------------------------------------------
\* slicing a ctypes c_uint8 array gives a list of ints
PyList(b) == [t |-> "list", v |-> BNorm(b)]
PyBytes(b) == [t |-> "bytes", v |-> BNorm(b)]
\* x == y: a list never equals a bytes object
PyEq(x, y) == x.t = y.t /\ x.v = y.v

\* storing v in a c_uint32 field
U32(v) == v % UINT32_MOD

\* ------------------------------------------------------------------------
\* KNOWN_FAMILIES = load_families(): name -> id, in the registry's order.
\* The registry is external data; two of its entries stand for it.
\* ------------------------------------------------------------------------
KNOWN_FAMILIES == << <<"RP2040", 58507>>, <<"SAMD21", 26861>> >>

\* ------------------------------------------------------------------------
\* Python dict as a sequence of <<key, value>> pairs in insertion order
\* ------------------------------------------------------------------------
DictKeys(d) == {d[i][1] : i \in 1..Len(d)}
DictGet(d, k) == d[CHOOSE i \in 1..Len(d) : d[i][1] = k][2]
\* d[k] = v
DictSet(d, k, v) ==
  IF k \in DictKeys(d)
  THEN [i \in 1..Len(d) |-> IF d[i][1] = k THEN <<k, v>> ELSE d[i]]
  ELSE Append(d, <<k, v>>)

\* ------------------------------------------------------------------------
\* UF2Block
\* ------------------------------------------------------------------------
\* UF2Block_raises with >= for >
UF2Block_raises_at_limit(data) == BLen(data) >= UF2_DATA_SIZE

\* UF2Block(data) raises ValueError("Data too long")
UF2Block_raises(data) == BLen(data) > UF2_DATA_SIZE

\* UF2Block(data) for len(data) <= UF2_DATA_SIZE: the zero-initialised ctypes
\* structure with the magics set and data padded with 0x00
UF2Block(data) ==
  [magicStart0 |-> UF2_MAGIC_START0,
   magicStart1 |-> UF2_MAGIC_START1,
   flags       |-> 0,
   targetAddr  |-> 0,
   payloadSize |-> 0,
   blockNo     |-> 0,
   numBlocks   |-> 0,
   reserved    |-> 0,
   data        |-> IF data # <<>>
                   THEN BCat(data, BZeros(UF2_DATA_SIZE - BLen(data)))
                   ELSE BZeros(UF2_DATA_SIZE),
   magicEnd    |-> UF2_MAGIC_END]

\* is_uf2_block without the test of magicEnd
is_uf2_block_no_end(b) ==
  /\ b.magicStart0 = UF2_MAGIC_START0
  /\ b.magicStart1 = UF2_MAGIC_START1

is_uf2_block(b) ==
  /\ b.magicStart0 = UF2_MAGIC_START0
  /\ b.magicStart1 = UF2_MAGIC_START1
  /\ b.magicEnd = UF2_MAGIC_END

\* ------------------------------------------------------------------------
\* The bytes of a block: UF2Block is a packed LittleEndianStructure of eight
\* c_uint32 fields, 476 data bytes and one more c_uint32 field
\* ------------------------------------------------------------------------
\* the four bytes of a c_uint32 field, lowest byte first
LE32(v) ==
  BOf(<<v % 256, (v \div 256) % 256, (v \div 65536) % 256, (v \div 16777216) % 256>>)

\* LE32_value with the highest byte first
LE32_value_big_endian(b) ==
  16777216 * BAt(b, 0) + 65536 * BAt(b, 1) + 256 * BAt(b, 2) + BAt(b, 3)

\* the value of a c_uint32 field whose four bytes are b
LE32_value(b) ==
  BAt(b, 0) + 256 * BAt(b, 1) + 65536 * BAt(b, 2) + 16777216 * BAt(b, 3)

\* the 512 bytes f.write(block) writes
bytes_of(b) ==
  BNorm(LE32(b.magicStart0) \o LE32(b.magicStart1) \o LE32(b.flags)
        \o LE32(b.targetAddr) \o LE32(b.payloadSize) \o LE32(b.blockNo)
        \o LE32(b.numBlocks) \o LE32(b.reserved) \o b.data \o LE32(b.magicEnd))

\* UF2Block.from_buffer_copy(data) raises ValueError: the buffer is too small
from_buffer_copy_raises(data) == BLen(data) < UF2_BLOCK_SIZE

\* UF2Block.from_buffer_copy(data) for len(data) >= 512 (__init__ does not run)
from_buffer_copy(data) ==
  [magicStart0 |-> LE32_value(BSlice(data, 0, 4)),
   magicStart1 |-> LE32_value(BSlice(data, 4, 8)),
   flags       |-> LE32_value(BSlice(data, 8, 12)),
   targetAddr  |-> LE32_value(BSlice(data, 12, 16)),
   payloadSize |-> LE32_value(BSlice(data, 16, 20)),
   blockNo     |-> LE32_value(BSlice(data, 20, 24)),
   numBlocks   |-> LE32_value(BSlice(data, 24, 28)),
   reserved    |-> LE32_value(BSlice(data, 28, 32)),
   data        |-> BNorm(BSlice(data, 32, 32 + UF2_DATA_SIZE)),
   magicEnd    |-> LE32_value(BSlice(data, 32 + UF2_DATA_SIZE, UF2_BLOCK_SIZE))]

\* ------------------------------------------------------------------------
\* UF2File
\* ------------------------------------------------------------------------
\* UF2File(): data holds heap indices of UF2Block objects
UF2File ==
  [data                 |-> <<>>,
   families             |-> <<>>,
   littlefs_superblocks |-> <<>>,
   ranges               |-> <<>>,
   program_name         |-> "",
   binary_start         |-> 0,
   binary_end           |-> 0,
   drive_start          |-> 0,
   drive_end            |-> 0,
   board                |-> ""]

\* the blocks of a container, in container order
Blocks(h, c) == [i \in 1..Len(c.data) |-> h[c.data[i]]]

\* UF2File.family_str: the first key of families, "" when there is none
family_str(c) == IF c.families # <<>> THEN c.families[1][1] ELSE ""

\* append_raises with the payload size of the last block left out
append_raises_no_size(h, c, id) ==
  /\ c.data # <<>>
  /\ h[id].targetAddr < h[c.data[Len(c.data)]].targetAddr

\* append_raises that never raises
append_raises_never(h, c, id) == FALSE

\* append_raises with <= for <
append_raises_strict(h, c, id) ==
  /\ c.data # <<>>
  /\ h[id].targetAddr
       <= h[c.data[Len(c.data)]].targetAddr + h[c.data[Len(c.data)]].payloadSize

\* UF2File.append raises ValueError: the block starts before the end of the
\* last block
append_raises(h, c, id) ==
  /\ c.data # <<>>
  /\ h[id].targetAddr
       < h[c.data[Len(c.data)]].targetAddr + h[c.data[Len(c.data)]].payloadSize

\* UF2File.append(block): a call result [heap, c, raised]
append(h, c, id) ==
  IF append_raises(h, c, id)
  THEN [heap |-> h, c |-> c, raised |-> "ValueError"]
  ELSE [heap   |-> [h EXCEPT ![id].blockNo = U32(Len(c.data))],
        c      |-> [c EXCEPT !.data = Append(c.data, id)],
        raised |-> ""]

\* UF2File.extend(other): append each block in order, stop at the first raise
\* extend that goes on with the next block after a block was rejected
RECURSIVE extend_skips(_, _, _)
extend_skips(h, c, ids) ==
  IF ids = <<>> THEN [heap |-> h, c |-> c, raised |-> ""]
  ELSE LET r == append(h, c, Head(ids)) IN
       IF r.raised # ""
       THEN [extend_skips(h, c, Tail(ids)) EXCEPT !.raised = r.raised]
       ELSE extend_skips(r.heap, r.c, Tail(ids))

RECURSIVE extend(_, _, _)
extend(h, c, ids) ==
  IF ids = <<>> THEN [heap |-> h, c |-> c, raised |-> ""]
  ELSE LET r == append(h, c, Head(ids)) IN
       IF r.raised # "" THEN r ELSE extend(r.heap, r.c, Tail(ids))

\* UF2File.get_family_name: the last registry name whose value is family_hex
get_family_name(family_hex) ==
  LET hits == {i \in 1..Len(KNOWN_FAMILIES) : KNOWN_FAMILIES[i][2] = family_hex}
  IN IF hits = {} THEN "unknown"
     ELSE KNOWN_FAMILIES[CHOOSE i \in hits : \A j \in hits : j <= i][1]

\* block.flags & UF2_FAMILY_ID_PRESENT, for the single bit UF2_FAMILY_ID_PRESENT
HasFamilyId(b) == (b.flags \div UF2_FAMILY_ID_PRESENT) % 2 = 1

Min2(a, b) == IF a <= b THEN a ELSE b

\* family_step that keeps the first address seen for a family
family_step_first(families, b) ==
  IF HasFamilyId(b) /\ get_family_name(b.reserved) \notin DictKeys(families)
  THEN DictSet(families, get_family_name(b.reserved), b.targetAddr)
  ELSE families

\* one pass of the loop of scan_family_names
family_step(families, b) ==
  IF HasFamilyId(b)
  THEN LET fam_name == get_family_name(b.reserved) IN
       IF fam_name \notin DictKeys(families)
       THEN DictSet(families, fam_name, b.targetAddr)
       ELSE DictSet(families, fam_name,
                    Min2(DictGet(families, fam_name), b.targetAddr))
  ELSE families

\* UF2File.scan_family_names: self.families is not reset
RECURSIVE scan_family_loop(_, _)
scan_family_loop(families, bs) ==
  IF bs = <<>> THEN families
  ELSE scan_family_loop(family_step(families, Head(bs)), Tail(bs))

scan_family_names(h, c) == scan_family_loop(c.families, Blocks(h, c))

\* block.data[: block.payloadSize] == b"\x00" * block.payloadSize
payload_is_zero(b) ==
  PyEq(PyList(BSlice(b.data, 0, b.payloadSize)), PyBytes(BZeros(b.payloadSize)))

\* the loop of scan_ranges: st = [ranges, last_address, start_range]
range_step(st, b) ==
  LET opened ==
        IF st.start_range = 0
        THEN [st EXCEPT !.start_range = b.targetAddr]
        ELSE IF st.last_address # b.targetAddr \/ payload_is_zero(b)
        THEN [st EXCEPT !.ranges = Append(@, <<st.start_range, st.last_address>>),
                        !.start_range = b.targetAddr]
        ELSE st
  IN [opened EXCEPT !.last_address = b.targetAddr + b.payloadSize]

RECURSIVE scan_ranges_loop(_, _)
scan_ranges_loop(st, bs) ==
  IF bs = <<>> THEN st ELSE scan_ranges_loop(range_step(st, Head(bs)), Tail(bs))

\* UF2File.scan_ranges: self.ranges is reset, the last range is always added
scan_ranges(h, c) ==
  LET st == scan_ranges_loop(
              [ranges |-> <<>>, last_address |-> 0, start_range |-> 0],
              Blocks(h, c))
  IN Append(st.ranges, <<st.start_range, st.last_address>>)

\* the loop of scan_ranges in uf2_info.py: last_address is assigned when a
\* range is opened at the first block and when a block extends the range, not
\* when a gap closes a range
info_range_step(st, b) ==
  IF st.start_range = 0
  THEN [st EXCEPT !.start_range = b.targetAddr,
                  !.last_address = b.targetAddr + b.payloadSize]
  ELSE IF st.last_address # b.targetAddr \/ payload_is_zero(b)
  THEN [st EXCEPT !.ranges = Append(@, <<st.start_range, st.last_address>>),
                  !.start_range = b.targetAddr]
  ELSE [st EXCEPT !.last_address = b.targetAddr + b.payloadSize]

RECURSIVE info_scan_ranges_loop(_, _)
info_scan_ranges_loop(st, bs) ==
  IF bs = <<>> THEN st
  ELSE info_scan_ranges_loop(info_range_step(st, Head(bs)), Tail(bs))

\* UF2File.scan_ranges of uf2_info.py on the blocks bs: self.ranges (ranges
\* here) is not reset, the last range is always added
info_scan_ranges(ranges, bs) ==
  LET st == info_scan_ranges_loop(
              [ranges |-> ranges, last_address |-> 0, start_range |-> 0], bs)
  IN Append(st.ranges, <<st.start_range, st.last_address>>)

\* littlefs_hit without the alignment test
littlefs_hit_any_addr(b) == BIn(LITTLEFS_MARKER, b.data)

\* the test of scan_littlefs on one block
littlefs_hit(b) ==
  b.targetAddr % LFS_ALIGN = 0 /\ BIn(LITTLEFS_MARKER, b.data)

\* UF2File.scan_littlefs: self.littlefs_superblocks is not reset; blockNo of
\* each hit is appended
RECURSIVE scan_littlefs_loop(_, _)
scan_littlefs_loop(found, bs) ==
  IF bs = <<>> THEN found
  ELSE scan_littlefs_loop(
         IF littlefs_hit(Head(bs)) THEN Append(found, Head(bs).blockNo) ELSE found,
         Tail(bs))

scan_littlefs(h, c) == scan_littlefs_loop(c.littlefs_superblocks, Blocks(h, c))

\* UF2File.scan
scan(h, c) ==
  [c EXCEPT !.families = scan_family_names(h, c),
            !.ranges = scan_ranges(h, c),
            !.littlefs_superblocks = scan_littlefs(h, c)]

\* a UF2 file on disk: its complete 512-byte records, decoded field by field,
\* and the length of a trailing partial record (0 when there is none)
\* UF2File.read_uf2 raises ValueError: from_buffer_copy on a short read
read_uf2_raises(file) == file.tail > 0

\* UF2File.read_uf2: every record with good magics becomes a new UF2Block that
\* is put at the end of data with list.append (no order check, blockNo kept);
\* scan() runs only when the loop ends without raising
read_uf2(h, c, file) ==
  LET good == SelectSeq(file.records, is_uf2_block)
      h1   == h \o good
      c1   == [c EXCEPT !.data = @ \o [i \in 1..Len(good) |-> Len(h) + i]]
  IN IF read_uf2_raises(file)
     THEN [heap |-> h1, c |-> c1, raised |-> "ValueError"]
     ELSE [heap |-> h1, c |-> scan(h1, c1), raised |-> ""]

\* A file that is read is the sequence of the byte strings its f.read(512)
\* calls return: 512 bytes each, the last one shorter when the size of the
\* file is not a multiple of 512.
\* the file read_uf2 sees: each complete piece through from_buffer_copy
read_records(pieces) ==
  LET n     == Len(pieces)
      whole == IF n > 0 /\ from_buffer_copy_raises(pieces[n]) THEN n - 1 ELSE n
  IN [records |-> [i \in 1..whole |-> from_buffer_copy(pieces[i])],
      tail    |-> IF whole < n THEN BLen(pieces[n]) ELSE 0]

\* ------------------------------------------------------------------------
\* Python None and truth
\* ------------------------------------------------------------------------
PyNone == "None"
\* `if x:` for x an int or None
Truthy(x) == x # PyNone /\ x # 0

\* UF2File.family_id: the property evaluates its expression and has no
\* return statement, so it gives None
family_id(c) == PyNone

\* the expression the body of family_id evaluates and drops:
\* int(KNOWN_FAMILIES[family_str]) if family_str in KNOWN_FAMILIES else 0
family_id_expr(c) ==
  IF family_str(c) \in DictKeys(KNOWN_FAMILIES)
  THEN DictGet(KNOWN_FAMILIES, family_str(c))
  ELSE 0

\* ------------------------------------------------------------------------
\* add_bin_info: picotool's answer is [kind, out]; kind is "OSError" (no
\* tool), "exit1" (returncode # 0) or "ok"; out has the six fields its text
\* holds, each <<>> when the text lacks it or <<v>>, an address being the
\* number its hex text denotes
\* ------------------------------------------------------------------------
\* int("42", 16), the value of a missing address field
HEX_42 == 66

\* parse_output(...) for a name
parse_output(field) == IF field = <<>> THEN "42" ELSE field[1]
\* int(parse_output(...), 16) for an address
parse_output_hex(field) == IF field = <<>> THEN HEX_42 ELSE field[1]

add_bin_info(c, picotool) ==
  IF "RP2040" \in DictKeys(c.families) /\ picotool.kind = "ok"
  THEN [c EXCEPT !.program_name = parse_output(picotool.out.name),
                 !.board = parse_output(picotool.out.board),
                 !.binary_start = parse_output_hex(picotool.out.binary_start),
                 !.binary_end = parse_output_hex(picotool.out.binary_end),
                 !.drive_start = parse_output_hex(picotool.out.drive_start),
                 !.drive_end = parse_output_hex(picotool.out.drive_end)]
  ELSE c

\* ------------------------------------------------------------------------
\* read_image
\* ------------------------------------------------------------------------
\* `if not chunk_size: chunk_size = UF2_DATA_SIZE`
chunk_size_of(chunk_size) == IF chunk_size = 0 THEN UF2_DATA_SIZE ELSE chunk_size

\* the assert of read_image fails
read_image_asserts(chunk_size) == chunk_size_of(chunk_size) > UF2_DATA_SIZE

\* the block read_image builds for the chunk at offset i
image_block(img, familyid, start_addr, i, chunk_size) ==
  LET chunk == BSlice(img, i, i + chunk_size) IN
  [UF2Block(chunk) EXCEPT
     !.flags = IF Truthy(familyid) THEN UF2_FAMILY_ID_PRESENT ELSE 0,
     !.reserved = IF Truthy(familyid) THEN U32(familyid) ELSE 0,
     !.targetAddr = U32(start_addr + i),
     !.payloadSize = U32(BLen(chunk))]

\* the first loop of read_image, from offset i on: range(0, len, chunk_size)
\* is empty for a negative chunk_size
RECURSIVE read_image_loop(_, _, _, _, _, _, _)
read_image_loop(h, c, img, familyid, start_addr, i, chunk_size) ==
  IF chunk_size < 0 \/ i >= BLen(img) THEN [heap |-> h, c |-> c, raised |-> ""]
  ELSE LET h1 == Append(h, image_block(img, familyid, start_addr, i, chunk_size))
           r  == append(h1, c, Len(h1))
       IN IF r.raised # "" THEN r
          ELSE read_image_loop(r.heap, r.c, img, familyid, start_addr,
                               i + chunk_size, chunk_size)

\* the second loop of read_image: numBlocks and blockNo of every block
renumber(h, c) ==
  [id \in 1..Len(h) |->
     IF \E i \in 1..Len(c.data) : c.data[i] = id
     THEN [h[id] EXCEPT
             !.numBlocks = U32(Len(c.data)),
             !.blockNo = U32((CHOOSE i \in 1..Len(c.data) :
                                c.data[i] = id /\ \A j \in 1..Len(c.data) :
                                                     c.data[j] = id => j <= i) - 1)]
     ELSE h[id]]

\* read_image(littlefs_img, firmware_uf2, chunk_size): a call result whose c
\* is the new UF2File
read_image(h, img, firmware_uf2, chunk_size) ==
  IF read_image_asserts(chunk_size)
  THEN [heap |-> h, c |-> UF2File, raised |-> "AssertionError"]
  ELSE LET r == read_image_loop(h, UF2File, img, family_id(firmware_uf2),
                                firmware_uf2.drive_start, 0,
                                chunk_size_of(chunk_size))
       IN IF r.raised # "" THEN r
          ELSE [heap |-> renumber(r.heap, r.c), c |-> r.c, raised |-> ""]

\* the address and payload size merge_uf2_littlefs gives its last block
FOO_ADDR == 270532608
FOO_SIZE == 256

\* foo = UF2Block("foo".encode()) with targetAddr and payloadSize assigned
foo_block ==
  [UF2Block(BOf(<<102, 111, 111>>)) EXCEPT !.targetAddr = U32(FOO_ADDR),
                                           !.payloadSize = U32(FOO_SIZE)]

\* Path.with_suffix
with_suffix(path, suffix) == [path EXCEPT !.suffix = suffix]

\* `for block in uf2: f.write(block)`: the blocks as they are when written
written(h, c) == Blocks(h, c)

\* ------------------------------------------------------------------------
\* State
\* ------------------------------------------------------------------------
VARIABLES
  heap,   \* the UF2Block objects held by some container, by identity
  uf,     \* the UF2File objects: base_uf2 and littelfs_uf2
  err,    \* the exception the last call raised, "" when it returned
  pc,     \* the statement merge_uf2_littlefs is at
  env,    \* its arguments, the files they name and picotool's answer
  disk    \* the files written: a dict path -> blocks

vars == <<heap, uf, err, pc, env, disk>>

B == "base_uf2"
L == "littelfs_uf2"
Containers == {B, L}

\* ------------------------------------------------------------------------
\* Bounds and the inputs the callers draw
\* ------------------------------------------------------------------------
\* the number of UF2Block objects that exist at one time
MaxHeap == 3
\* a container is scanned again only while it holds at most this many
\* littlefs reports
MaxReports == 1

\* payloads a caller hands to UF2Block(): program data, zero bytes, a
\* littlefs superblock
Payload(kind) ==
  CASE kind = "zero" -> BZeros(16)
    [] kind = "lfs"  -> BOf(LITTLEFS_MARKER)
    [] OTHER         -> << <<170, 16>> >>

\* the blocks a caller builds: program data of family RP2040, program data of
\* a family the registry does not know, zero bytes and a littlefs superblock
\* (the last two without a family id)
Kinds == {"RP2040", "other", "zero", "lfs"}
Addrs == {0, 16, 32, 48, 4096}
Sizes == {16}

\* UF2Block(payload) for each kind of payload
NewBlock == [k \in Kinds |-> UF2Block(Payload(k))]

\* the block a caller builds before it appends it: UF2Block(payload), then
\* flags, reserved, targetAddr and payloadSize are assigned
MakeBlock(addr, size, kind) ==
  [NewBlock[kind] EXCEPT
     !.flags = IF kind \in {"RP2040", "other"} THEN UF2_FAMILY_ID_PRESENT ELSE 0,
     !.reserved = CASE kind = "RP2040" -> 58507 [] kind = "other" -> 7 [] OTHER -> 0,
     !.targetAddr = U32(addr),
     !.payloadSize = U32(size)]

\* a record of a file: a block as some tool wrote it, with the blockNo and
\* numBlocks it was given, or with a bad magic
MakeRecord(addr, kind, no, magic) ==
  [MakeBlock(addr, 16, kind) EXCEPT !.blockNo = no, !.numBlocks = 2,
                                     !.magicEnd = magic]

FileRecords ==
  {MakeRecord(32, "RP2040", 0, UF2_MAGIC_END),
   MakeRecord(16, "RP2040", 1, UF2_MAGIC_END),
   MakeRecord(0, "lfs", 1, UF2_MAGIC_END),
   MakeRecord(0, "RP2040", 0, 0)}

\* the files read: up to MaxFileLen records, no partial record at the end, and
\* one file that ends in a partial record
MaxFileLen == 2
Files ==
  {[records |-> r, tail |-> 0] :
      r \in UNION {[1..n -> FileRecords] : n \in 1..MaxFileLen}}
  \cup {[records |-> <<MakeRecord(16, "RP2040", 0, UF2_MAGIC_END)>>, tail |-> 100]}

\* ------------------------------------------------------------------------
\* Calls on the containers
\* ------------------------------------------------------------------------
\* no run of merge_uf2_littlefs
NoEnv == [firmware_uf2 |-> <<>>]

Init ==
  /\ heap = <<>>
  /\ uf = [c \in Containers |-> UF2File]
  /\ err = ""
  /\ pc = "api"
  /\ env = NoEnv
  /\ disk = <<>>

Return(r, c) ==
  /\ heap' = r.heap
  /\ uf' = [uf EXCEPT ![c] = r.c]
  /\ err' = r.raised
  /\ UNCHANGED <<pc, env, disk>>

\* c.append(block) with a block the caller has just built; a rejected block is
\* dropped by the caller
CallAppend(c, addr, size, kind) ==
  /\ Len(heap) < MaxHeap
  /\ LET h1 == Append(heap, MakeBlock(addr, size, kind))
         r  == append(h1, uf[c], Len(h1))
     IN IF r.raised # ""
        THEN heap' = heap /\ uf' = uf /\ err' = r.raised /\ UNCHANGED <<pc, env, disk>>
        ELSE Return(r, c)

\* c.read_uf2(file) on a new container
CallRead(c, file) ==
  /\ uf[c].data = <<>>
  /\ Len(heap) + Len(file.records) <= MaxHeap
  /\ Return(read_uf2(heap, uf[c], file), c)

\* c.extend(blocks) with blocks the caller has just built; the blocks that
\* were not appended are dropped by the caller
CallExtend(c, ins) ==
  /\ Len(heap) + Len(ins) <= MaxHeap
  /\ LET h1 == heap \o [i \in 1..Len(ins) |-> MakeBlock(ins[i][1], ins[i][2], ins[i][3])]
         r  == extend(h1, uf[c], [i \in 1..Len(ins) |-> Len(heap) + i])
     IN /\ heap' = SubSeq(r.heap, 1, Len(heap) + Len(r.c.data) - Len(uf[c].data))
        /\ uf' = [uf EXCEPT ![c] = r.c]
        /\ err' = r.raised
        /\ UNCHANGED <<pc, env, disk>>

\* c.scan()
CallScan(c) ==
  /\ uf[c].data # <<>>
  /\ Len(uf[c].littlefs_superblocks) <= MaxReports
  /\ Return([heap |-> heap, c |-> scan(heap, uf[c]), raised |-> ""], c)

\* the block lists handed to extend
ExtendInputs ==
  {<< <<a, 16, "RP2040">>, <<b, 16, "zero">> >> : a, b \in Addrs}

\* Every sequence of read_uf2, append, extend and scan calls on one container
Next ==
  \/ \E a \in Addrs, s \in Sizes, k \in Kinds : CallAppend("base_uf2", a, s, k)
  \/ \E f \in Files : CallRead("base_uf2", f)
  \/ \E ins \in ExtendInputs : CallExtend("base_uf2", ins)
  \/ CallScan("base_uf2")

Spec == Init /\ [][Next]_vars

\* Every sequence of append calls on an initially empty container
NextAppend ==
  \E a \in Addrs, s \in Sizes, k \in Kinds : CallAppend("littelfs_uf2", a, s, k)

SpecAppend == Init /\ [][NextAppend]_vars

\* ------------------------------------------------------------------------
\* What the claims speak of
\* ------------------------------------------------------------------------
BlockEnd(b) == b.targetAddr + b.payloadSize

\* block[i].target_addr + block[i].payload_size <= block[i+1].target_addr for
\* the adjacent pairs i, i+1 with lo <= i
MonotonicFrom(bs, lo) ==
  \A i \in 1..(Len(bs) - 1) : i >= lo => BlockEnd(bs[i]) <= bs[i + 1].targetAddr

\* the payload bytes data[0:payload_size] are all zero
AllZeroPayload(b) == BNorm(BSlice(b.data, 0, b.payloadSize)) = BZeros(b.payloadSize)

\* one (start, end) per maximal run of address-contiguous blocks, the run that
\* is open at block i having started at address start
RECURSIVE MaximalRuns(_, _, _)
MaximalRuns(bs, i, start) ==
  IF i > Len(bs) THEN <<>>
  ELSE IF i = Len(bs) \/ bs[i + 1].targetAddr # BlockEnd(bs[i])
  THEN << <<start, BlockEnd(bs[i])>> >>
       \o MaximalRuns(bs, i + 1, IF i = Len(bs) THEN 0 ELSE bs[i + 1].targetAddr)
  ELSE MaximalRuns(bs, i + 1, start)

\* the magic occurs somewhere in the 476-byte data buffer
MagicInData(b) ==
  \E s \in 0..(UF2_DATA_SIZE - Len(LITTLEFS_MARKER)) :
     \A j \in 1..Len(LITTLEFS_MARKER) : BAt(b.data, s + j - 1) = LITTLEFS_MARKER[j]

\* the name a family id resolves to
ResolvedName(id) ==
  IF \E i \in 1..Len(KNOWN_FAMILIES) : KNOWN_FAMILIES[i][2] = id
  THEN (CHOOSE e \in {KNOWN_FAMILIES[i] : i \in 1..Len(KNOWN_FAMILIES)} : e[2] = id)[1]
  ELSE "unknown"

FlaggedBlocks(bs) ==
  {i \in 1..Len(bs) : (bs[i].flags \div UF2_FAMILY_ID_PRESENT) % 2 = 1}

\* ------------------------------------------------------------------------
\* merge_uf2_littlefs, statement by statement.  A statement that raises ends
\* the run: err is set and pc stays at the statement.
\* ------------------------------------------------------------------------
\* base_uf2 = UF2File(); base_uf2.read_uf2(firmware_uf2)
StepReadUf2 ==
  /\ pc = "read_uf2" /\ err = ""
  /\ LET r == read_uf2(heap, UF2File, env.firmware_uf2) IN
     /\ heap' = r.heap
     /\ uf' = [uf EXCEPT ![B] = r.c]
     /\ err' = r.raised
     /\ pc' = IF r.raised = "" THEN "add_bin_info" ELSE pc
  /\ UNCHANGED <<env, disk>>

\* base_uf2.add_bin_info()
StepAddBinInfo ==
  /\ pc = "add_bin_info" /\ err = ""
  /\ uf' = [uf EXCEPT ![B] = add_bin_info(uf[B], env.picotool)]
  /\ pc' = "read_image"
  /\ UNCHANGED <<heap, err, env, disk>>

\* littelfs_uf2 = None; if littlefs_img and littlefs_img.exists():
\*     littelfs_uf2 = read_image(littlefs_img, base_uf2, chunk_size)
\* (None and an empty UF2File are both false, which is all the code asks;
\* when read_image raises, littelfs_uf2 is never assigned)
StepReadImage ==
  /\ pc = "read_image" /\ err = ""
  /\ IF env.littlefs_img # <<>>
     THEN LET r == read_image(heap, env.littlefs_img[1], uf[B], env.chunk_size) IN
          /\ heap' = r.heap
          /\ uf' = IF r.raised = "" THEN [uf EXCEPT ![L] = r.c] ELSE uf
          /\ err' = r.raised
          /\ pc' = IF r.raised = "" THEN "save" ELSE pc
     ELSE pc' = "save" /\ UNCHANGED <<heap, uf, err>>
  /\ UNCHANGED <<env, disk>>

\* if littelfs_uf2 and save_littlefs: write it to out_path.with_suffix(".uf2")
StepSave ==
  /\ pc = "save" /\ err = ""
  /\ IF uf[L].data # <<>> /\ env.save_littlefs
     THEN IF env.out_path = <<>>
          THEN err' = "AttributeError" /\ UNCHANGED <<pc, disk>>
          ELSE /\ disk' = DictSet(disk, with_suffix(env.out_path[1], ".uf2"),
                                  written(heap, uf[L]))
               /\ pc' = "extend"
               /\ UNCHANGED err
     ELSE pc' = "extend" /\ UNCHANGED <<err, disk>>
  /\ UNCHANGED <<heap, uf, env>>

\* if littelfs_uf2: base_uf2.extend(littelfs_uf2)
StepExtend ==
  /\ pc = "extend" /\ err = ""
  /\ IF uf[L].data # <<>>
     THEN LET r == extend(heap, uf[B], uf[L].data) IN
          /\ heap' = r.heap
          /\ uf' = [uf EXCEPT ![B] = r.c]
          /\ err' = r.raised
          /\ pc' = IF r.raised = "" THEN "foo" ELSE pc
     ELSE pc' = "foo" /\ UNCHANGED <<heap, uf, err>>
  /\ UNCHANGED <<env, disk>>

\* foo = UF2Block(...); base_uf2.append(foo)
StepFoo ==
  /\ pc = "foo" /\ err = ""
  /\ LET h1 == Append(heap, foo_block)
         r  == append(h1, uf[B], Len(h1))
     IN /\ heap' = r.heap
        /\ uf' = [uf EXCEPT ![B] = r.c]
        /\ err' = r.raised
        /\ pc' = IF r.raised = "" THEN "scan" ELSE pc
  /\ UNCHANGED <<env, disk>>

\* if out_path: base_uf2.scan()
StepScan ==
  /\ pc = "scan" /\ err = ""
  /\ uf' = IF env.out_path # <<>> THEN [uf EXCEPT ![B] = scan(heap, uf[B])] ELSE uf
  /\ pc' = "write"
  /\ UNCHANGED <<heap, err, env, disk>>

\* if out_path: write every block of base_uf2 to out_path
StepWrite ==
  /\ pc = "write" /\ err = ""
  /\ disk' = IF env.out_path # <<>>
             THEN DictSet(disk, env.out_path[1], written(heap, uf[B]))
             ELSE disk
  /\ pc' = "done"
  /\ UNCHANGED <<heap, uf, err, env>>

\* ------------------------------------------------------------------------
\* The runs of merge_uf2_littlefs that are explored
\* ------------------------------------------------------------------------
\* a 512-byte record of a firmware file: 256 payload bytes, as picotool and
\* the MicroPython build write them
FwRecord(addr, kind, no) ==
  [MakeBlock(addr, 256, kind) EXCEPT !.blockNo = no, !.numBlocks = 2]

Firmwares ==
  { \* two contiguous blocks
    [records |-> <<FwRecord(4096, "RP2040", 0), FwRecord(4352, "RP2040", 1)>>, tail |-> 0],
    \* the same blocks, the higher address first
    [records |-> <<FwRecord(4352, "RP2040", 0), FwRecord(4096, "RP2040", 1)>>, tail |-> 0],
    \* a record with a bad magic between them
    [records |-> <<FwRecord(4096, "RP2040", 0),
                   [FwRecord(4352, "RP2040", 1) EXCEPT !.magicStart1 = 0],
                   FwRecord(4352, "RP2040", 2)>>, tail |-> 0],
    \* no family id
    [records |-> <<FwRecord(4096, "lfs", 0)>>, tail |-> 0],
    \* a firmware that already holds a littlefs superblock
    [records |-> <<FwRecord(4096, "RP2040", 0), FwRecord(8192, "lfs", 1)>>, tail |-> 0],
    \* no record at all
    [records |-> <<>>, tail |-> 0],
    \* a partial record at the end
    [records |-> <<FwRecord(4096, "RP2040", 0)>>, tail |-> 100] }

PicotoolOut(drive_start) ==
  [name         |-> <<"MicroPython">>,
   board        |-> <<"pico">>,
   binary_start |-> <<4096>>,
   binary_end   |-> <<4608>>,
   drive_start  |-> drive_start,
   drive_end    |-> <<FOO_ADDR>>]

NoOut == [name |-> <<>>, board |-> <<>>, binary_start |-> <<>>, binary_end |-> <<>>,
          drive_start |-> <<>>, drive_end |-> <<>>]

\* the drive starts picotool reports: after the firmware, at the last block
\* of the firmware, just below FOO_ADDR, and just below the end of the
\* address space
DriveStarts == {8192, 4352, FOO_ADDR - 512, UINT32_MOD - 256}

Picotools ==
  {[kind |-> "OSError", out |-> NoOut], [kind |-> "exit1", out |-> NoOut],
   [kind |-> "ok", out |-> NoOut]}
  \cup {[kind |-> "ok", out |-> PicotoolOut(<<d>>)] : d \in DriveStarts}

\* a littlefs image of n bytes: a superblock, then erased flash
ImageBytes(n) ==
  BSlice(BCat(BOf(<<3, 0, 0, 0>> \o LITTLEFS_MARKER), << <<255, 4096>> >>), 0, n)

\* no image, an empty image, one chunk, and the 1000 bytes of three chunks
Images == {<<>>, <<ImageBytes(0)>>, <<ImageBytes(476)>>, <<ImageBytes(1000)>>}

ChunkSizes == {0, 256, 476, 477, -1}

OutPaths ==
  {<<>>, <<[stem |-> "firmware_lfs", suffix |-> ".uf2"]>>,
   <<[stem |-> "pico_src", suffix |-> ".bin"]>>}

Envs ==
  [firmware_uf2  : Firmwares,
   picotool      : Picotools,
   littlefs_img  : Images,
   chunk_size    : ChunkSizes,
   save_littlefs : BOOLEAN,
   out_path      : OutPaths]

InitMerge ==
  /\ heap = <<>>
  /\ uf = [c \in Containers |-> UF2File]
  /\ err = ""
  /\ pc = "read_uf2"
  /\ env \in Envs
  /\ disk = <<>>

NextMerge ==
  \/ StepReadUf2
  \/ StepAddBinInfo
  \/ StepReadImage
  \/ StepSave
  \/ StepExtend
  \/ StepFoo
  \/ StepScan
  \/ StepWrite

SpecMerge == InitMerge /\ [][NextMerge]_vars

\* ------------------------------------------------------------------------
\* C1  Monotonicity: after any sequence of append calls on an initially empty
\* container, every adjacent pair of its blocks satisfies
\* block[i].target_addr + block[i].payload_size <= block[i+1].target_addr.
\* ------------------------------------------------------------------------
C1_Monotonicity == MonotonicFrom(Blocks(heap, uf[L]), 1)

\* three blocks were appended and a fourth call was rejected on the way
C1_Witness == Len(uf[L].data) >= 2 /\ err = "ValueError"

\* ------------------------------------------------------------------------
\* C2  append(block) raises exactly when the container is non-empty and
\* block.target_addr < last.target_addr + last.payload_size; a rejected append
\* leaves the block sequence and the block's block_no as they were; an
\* accepted append puts the block at the end with block_no = the length
\* before the call.
\* ------------------------------------------------------------------------
C2_AppendContract ==
  [][\A a \in Addrs, s \in Sizes, k \in Kinds :
       CallAppend(B, a, s, k) =>
         LET c    == uf[B]
             blk  == MakeBlock(a, s, k)
             h1   == Append(heap, blk)
             last == heap[c.data[Len(c.data)]]
             out_of_order == c.data # <<>> /\ blk.targetAddr < BlockEnd(last)
         IN /\ (err' = "ValueError") <=> out_of_order
            /\ out_of_order =>
                 /\ uf'[B].data = c.data
                 /\ heap' = heap
                 /\ append(h1, c, Len(h1)).heap[Len(h1)].blockNo = blk.blockNo
            /\ ~out_of_order =>
                 /\ Len(uf'[B].data) = Len(c.data) + 1
                 /\ SubSeq(uf'[B].data, 1, Len(c.data)) = c.data
                 /\ heap'[uf'[B].data[Len(c.data) + 1]]
                      = [blk EXCEPT !.blockNo = Len(c.data)]
                 /\ SubSeq(heap', 1, Len(heap)) = heap]_vars

\* a call was rejected after two blocks were accepted
C2_Witness ==
  /\ err = "ValueError"
  /\ Len(uf[B].data) = 2
  /\ heap[uf[B].data[2]].blockNo = 1
  /\ MonotonicFrom(Blocks(heap, uf[B]), 1)

\* ------------------------------------------------------------------------
\* Merges: the runs of merge_uf2_littlefs with a base decoded from the
\* firmware file and an addition made by read_image
\* ------------------------------------------------------------------------
\* the number of blocks read_uf2 decoded into the base
BaseCount == Len(SelectSeq(env.firmware_uf2.records, is_uf2_block))

\* the merge has ended: extend or the append of the trailing block raised, or
\* both returned
MergeFailed == pc \in {"extend", "foo"} /\ err # ""
MergeSucceeded == pc \in {"scan", "write", "done"}
HasAddition == uf[L].data # <<>>

\* ------------------------------------------------------------------------
\* C3  The merge of a base with a converter-produced addition fails with
\* OutOfOrder (ValueError) if and only if the addition's first block starts
\* before the end of the base's last block; in every other case it succeeds,
\* whatever the absolute addresses are.
\* ------------------------------------------------------------------------
C3_MergeFailsIff ==
  (HasAddition /\ BaseCount > 0 /\ (MergeFailed \/ MergeSucceeded)) =>
     LET base_last == heap[uf[B].data[BaseCount]]
         add_first == heap[uf[L].data[1]]
     IN (MergeFailed /\ err = "ValueError")
          <=> (add_first.targetAddr < BlockEnd(base_last))

\* ------------------------------------------------------------------------
\* C4  After a successful merge of a decoded base with an addition, every
\* adjacent pair of the merged container whose second block was appended by
\* the merge (the blocks of the addition and the trailing block) has
\* block[i].target_addr + block[i].payload_size <= block[i+1].target_addr.
\* ------------------------------------------------------------------------
C4_MergedMonotonic ==
  (HasAddition /\ MergeSucceeded) =>
     MonotonicFrom(Blocks(heap, uf[B]), IF BaseCount = 0 THEN 1 ELSE BaseCount)

\* a merge succeeded on a base of two decoded blocks that are out of order,
\* with an addition of three blocks
C4_Witness ==
  /\ pc = "done"
  /\ BaseCount = 2
  /\ Len(uf[L].data) = 3
  /\ Len(uf[B].data) = 6
  /\ ~MonotonicFrom(Blocks(heap, uf[B]), 1)

\* the statement of C4 as written: every adjacent pair, the pairs of the
\* decoded base included
C4_WholeContainer ==
  (HasAddition /\ MergeSucceeded) => MonotonicFrom(Blocks(heap, uf[B]), 1)

\* ------------------------------------------------------------------------
\* C5  Range scan: for a non-empty block sequence with no all-zero payload,
\* scan_ranges leaves one (start, end) per maximal run of address-contiguous
\* blocks, also when the first block is at target_addr 0.
\* ------------------------------------------------------------------------
C5_RangeScan ==
  [][CallScan(B) =>
       LET bs == Blocks(heap', uf'[B]) IN
       (\A i \in 1..Len(bs) : ~AllZeroPayload(bs[i]))
          => uf'[B].ranges = MaximalRuns(bs, 1, bs[1].targetAddr)]_vars

\* ------------------------------------------------------------------------
\* C6  A block that is not the first and whose payload bytes are all zero
\* closes the current range and opens a new range at its own target_addr,
\* even when it is address-contiguous with its predecessor.  (Stated for
\* containers with no block at address 0.)
\* ------------------------------------------------------------------------
C6_ZeroBlockSplits ==
  [][CallScan(B) =>
       LET bs == Blocks(heap', uf'[B])
           rs == uf'[B].ranges
       IN (\A i \in 1..Len(bs) : bs[i].targetAddr # 0) =>
          \A k \in 2..Len(bs) :
             AllZeroPayload(bs[k]) =>
               /\ \E j \in 1..Len(rs) : rs[j][1] = bs[k].targetAddr
               /\ \E j \in 1..Len(rs) : rs[j][2] = BlockEnd(bs[k - 1])]_vars

\* ------------------------------------------------------------------------
\* C7  Family scan: after the scan the keys of families are exactly the
\* resolved names of the blocks that carry FAMILY_ID_PRESENT, and each name
\* has the minimum target_addr over its blocks, whatever the block order; an
\* id the registry lacks resolves to "unknown".
\* ------------------------------------------------------------------------
C7_FamilyScan ==
  [][(CallScan(B) \/ \E f \in Files : CallRead(B, f) /\ err' = "") =>
       LET bs  == Blocks(heap', uf'[B])
           fam == uf'[B].families
           of(n) == {i \in FlaggedBlocks(bs) : ResolvedName(bs[i].reserved) = n}
       IN /\ DictKeys(fam) = {ResolvedName(bs[i].reserved) : i \in FlaggedBlocks(bs)}
          /\ \A i \in 1..Len(fam) :
               /\ \E b \in of(fam[i][1]) : bs[b].targetAddr = fam[i][2]
               /\ \A b \in of(fam[i][1]) : fam[i][2] <= bs[b].targetAddr
          /\ \A i, j \in 1..Len(fam) : fam[i][1] = fam[j][1] => i = j]_vars

\* RP2040 blocks at 32 and then at 16 gave 16, and an unknown id is recorded
C7_Witness ==
  /\ Len(uf[B].data) = 3
  /\ heap[uf[B].data[1]].targetAddr = 32
  /\ heap[uf[B].data[2]].targetAddr = 16
  /\ "RP2040" \in DictKeys(uf[B].families) /\ DictGet(uf[B].families, "RP2040") = 16
  /\ "unknown" \in DictKeys(uf[B].families)

\* ------------------------------------------------------------------------
\* C8  Signature scan: a scan reports a block (adds its block number to
\* littlefs_superblocks) if and only if the block's target_addr is a multiple
\* of 4096 and the magic occurs in its data buffer.
\* ------------------------------------------------------------------------
C8_SignatureScan ==
  [][CallScan(B) =>
       LET bs   == Blocks(heap, uf[B])
           hits == SelectSeq(bs, LAMBDA b : b.targetAddr % 4096 = 0 /\ MagicInData(b))
       IN uf'[B].littlefs_superblocks
            = uf[B].littlefs_superblocks \o [i \in 1..Len(hits) |-> hits[i].blockNo]]_vars

\* the magic at 16 (not reported) and at 4096 (reported), after one scan
C8_Witness ==
  /\ Len(uf[B].data) = 2
  /\ \A i \in 1..2 : MagicInData(heap[uf[B].data[i]])
  /\ heap[uf[B].data[1]].targetAddr = 16
  /\ heap[uf[B].data[2]].targetAddr = 4096
  /\ uf[B].littlefs_superblocks = <<1>>

\* ------------------------------------------------------------------------
\* C9  scan() recomputes the three views from the current blocks: after a
\* scan they equal the views a single scan of the same blocks gives, however
\* often the container was scanned before.
\* ------------------------------------------------------------------------
C9_ScanRecomputes ==
  [][CallScan(B) =>
       LET fresh == scan(heap', [UF2File EXCEPT !.data = uf'[B].data]) IN
       /\ uf'[B].families = fresh.families
       /\ uf'[B].ranges = fresh.ranges
       /\ uf'[B].littlefs_superblocks = fresh.littlefs_superblocks]_vars

\* ------------------------------------------------------------------------
\* C10  Converter contiguity: for every buffer and every chunk_size with
\* 0 < chunk_size <= 476, read_image yields ceil(len(buffer)/chunk_size)
\* blocks, block i with target_addr = base_address + i*chunk_size,
\* payload_size = min(chunk_size, len(buffer) - i*chunk_size), block_no = i
\* and num_blocks = the block count.
\* ------------------------------------------------------------------------
C10_ConverterContiguity ==
  [][(StepReadImage /\ env.littlefs_img # <<>>
        /\ env.chunk_size > 0 /\ env.chunk_size <= UF2_DATA_SIZE) =>
       LET n    == BLen(env.littlefs_img[1])
           cs   == env.chunk_size
           base == uf[B].drive_start
           cnt  == (n + cs - 1) \div cs
           bs   == Blocks(heap', uf'[L])
       IN /\ err' = ""
          /\ Len(bs) = cnt
          /\ \A i \in 0..(cnt - 1) :
               /\ bs[i + 1].targetAddr = base + i * cs
               /\ bs[i + 1].payloadSize = Min2(cs, n - i * cs)
               /\ bs[i + 1].blockNo = i
               /\ bs[i + 1].numBlocks = cnt]_vars

\* ------------------------------------------------------------------------
\* C11  Converter family tagging: when the family id of the base container is
\* non-zero, every block read_image produces has flags = FAMILY_ID_PRESENT
\* and reserved = that family id; when it is zero, every block has flags = 0.
\* ------------------------------------------------------------------------
C11_FamilyTagging ==
  [][(StepReadImage /\ env.littlefs_img # <<>> /\ err' = "") =>
       LET fid == family_id_expr(uf[B])
           bs  == Blocks(heap', uf'[L])
       IN \A i \in 1..Len(bs) :
            IF fid # 0
            THEN bs[i].flags = UF2_FAMILY_ID_PRESENT /\ bs[i].reserved = fid
            ELSE bs[i].flags = 0]_vars

\* ------------------------------------------------------------------------
\* C12  For every base address that fits the target-address field and every
\* buffer, the blocks of read_image are in strictly increasing, contiguous
\* target_addr order and appending them to the empty container never raises
\* OutOfOrder (ValueError), also when base address + len(buffer) passes the
\* top of the field.
\* ------------------------------------------------------------------------
C12_NoWrapOutOfOrder ==
  [][(StepReadImage /\ env.littlefs_img # <<>>
        /\ ~read_image_asserts(env.chunk_size)
        /\ uf[B].drive_start < UINT32_MOD) =>
       LET bs == Blocks(heap', uf'[L]) IN
       /\ err' # "ValueError"
       /\ \A i \in 1..(Len(bs) - 1) :
            /\ bs[i].targetAddr < bs[i + 1].targetAddr
            /\ bs[i + 1].targetAddr = bs[i].targetAddr + bs[i].payloadSize]_vars

\* ------------------------------------------------------------------------
\* One block: it is constructed, its fields are assigned, it is written to a
\* file and the file is read back
\* ------------------------------------------------------------------------
\* the payloads handed to UF2Block(): b"", b"foo", 476 bytes, 477 bytes and
\* 600 bytes
NewPayloads ==
  {<<>>, BOf(<<102, 111, 111>>), << <<1, 1>>, <<2, 475>> >>,
   << <<1, 477>> >>, << <<3, 600>> >>}

\* the c_uint32 fields callers assign, and the values they assign: zero, a
\* value whose bytes differ, a value at the top of the field, and a value
\* that does not fit the field
BlockFields == {"flags", "targetAddr", "payloadSize", "blockNo", "numBlocks", "reserved"}
FieldValues == {0, 258, UINT32_MOD - 2, UINT32_MOD + 258}

BlockPath == [stem |-> "block", suffix |-> ".uf2"]

\* block = UF2Block(payload)
CallNew(payload) ==
  /\ heap = <<>> /\ disk = <<>>
  /\ IF UF2Block_raises(payload)
     THEN err' = "ValueError" /\ UNCHANGED heap
     ELSE err' = "" /\ heap' = <<UF2Block(payload)>>
  /\ UNCHANGED <<uf, pc, env, disk>>

\* block.<field> = v
SetField(field, v) ==
  /\ Len(heap) = 1 /\ disk = <<>>
  /\ heap' = [heap EXCEPT ![1][field] = U32(v)]
  /\ err' = ""
  /\ UNCHANGED <<uf, pc, env, disk>>

\* with open(path, "wb") as f: f.write(block)
CallWrite ==
  /\ Len(heap) = 1 /\ disk = <<>>
  /\ disk' = DictSet(disk, BlockPath, <<bytes_of(heap[1])>>)
  /\ err' = ""
  /\ UNCHANGED <<heap, uf, pc, env>>

\* UF2File().read_uf2(path) of the file written
CallDecode ==
  /\ Len(heap) = 1 /\ disk # <<>>
  /\ Return(read_uf2(heap, UF2File, read_records(DictGet(disk, BlockPath))), B)

NextBlock ==
  \/ \E p \in NewPayloads : CallNew(p)
  \/ \E f \in BlockFields, v \in FieldValues : SetField(f, v)
  \/ CallWrite
  \/ CallDecode

SpecBlock == Init /\ [][NextBlock]_vars

\* ------------------------------------------------------------------------
\* C13  UF2Block(payload) for a payload of at most 476 bytes returns a block
\* with the three magics set to their constants, flags = 0, target_addr = 0,
\* payload_size = len(payload) and data = the payload followed by zero bytes
\* up to 476.
\* ------------------------------------------------------------------------
C13_NewBlock ==
  [][\A p \in NewPayloads :
       (CallNew(p) /\ BLen(p) <= UF2_DATA_SIZE) =>
          /\ err' = ""
          /\ Len(heap') = 1
          /\ heap'[1].magicStart0 = UF2_MAGIC_START0
          /\ heap'[1].magicStart1 = UF2_MAGIC_START1
          /\ heap'[1].magicEnd = UF2_MAGIC_END
          /\ heap'[1].flags = 0
          /\ heap'[1].targetAddr = 0
          /\ heap'[1].payloadSize = BLen(p)
          /\ heap'[1].data = BNorm(p \o BZeros(UF2_DATA_SIZE - BLen(p)))]_vars

\* ------------------------------------------------------------------------
\* C14  UF2Block(payload) raises ValueError (PayloadTooLarge) for every
\* payload longer than 476 bytes and returns for every payload of 0 to 476
\* bytes.
\* ------------------------------------------------------------------------
C14_PayloadTooLarge ==
  [][\A p \in NewPayloads :
       CallNew(p) =>
          /\ err' \in {"", "ValueError"}
          /\ (err' = "ValueError") <=> (BLen(p) > UF2_DATA_SIZE)
          /\ (err' = "") <=> (Len(heap') = 1)]_vars

\* the construction was refused: no block exists
C14_Witness == err = "ValueError" /\ heap = <<>> /\ disk = <<>>

\* ------------------------------------------------------------------------
\* C15  Round trip: for every valid block b, whatever its flags, target_addr,
\* payload_size, block_no, num_blocks, reserved and data, reading the 512
\* bytes written for b gives a block equal to b in every field.
\* ------------------------------------------------------------------------
C15_RoundTrip ==
  [][(CallDecode /\ is_uf2_block(heap[1])) =>
       /\ err' = ""
       /\ BLen(DictGet(disk, BlockPath)[1]) = UF2_BLOCK_SIZE
       /\ uf'[B].data = <<2>>
       /\ heap'[2] = heap[1]
       /\ heap'[1] = heap[1]]_vars

\* a block with a value at the top of one field, bytes that differ in another
\* and a full payload was written and read back
C15_Witness ==
  /\ Len(heap) = 2
  /\ uf[B].data = <<2>>
  /\ heap[1].targetAddr = UINT32_MOD - 2
  /\ heap[1].reserved = 258
  /\ heap[1].data = << <<1, 1>>, <<2, 475>> >>
  /\ heap[2] = heap[1]

\* ------------------------------------------------------------------------
\* Reading a file: the file is a sequence of 512-byte records, some of them
\* with a bad magic, and possibly a partial record at its end
\* ------------------------------------------------------------------------
\* the records of the files: three valid blocks and one block for each magic
\* that can be bad
ReadRecords ==
  {MakeRecord(32, "RP2040", 0, UF2_MAGIC_END),
   MakeRecord(16, "RP2040", 1, UF2_MAGIC_END),
   MakeRecord(0, "lfs", 2, UF2_MAGIC_END),
   MakeRecord(48, "RP2040", 3, 0),
   [MakeRecord(48, "RP2040", 4, UF2_MAGIC_END) EXCEPT !.magicStart0 = 0],
   [MakeRecord(48, "RP2040", 5, UF2_MAGIC_END) EXCEPT !.magicStart1 = UF2_MAGIC_START0]}

\* the number of complete records of a file, and the lengths of the partial
\* record at its end
MaxReadLen == 3
ReadTails == {0, 100}

ReadPath == [stem |-> "firmware", suffix |-> ".uf2"]

\* the pieces of a file with these records and a partial record of tail
\* bytes at its end
FilePieces(records, tail) ==
  [i \in 1..Len(records) |-> bytes_of(records[i])]
  \o (IF tail > 0
      THEN <<BSlice(bytes_of(MakeRecord(64, "RP2040", 9, UF2_MAGIC_END)), 0, tail)>>
      ELSE <<>>)

InitRead ==
  /\ heap = <<>>
  /\ uf = [c \in Containers |-> UF2File]
  /\ err = ""
  /\ pc = "api"
  /\ \E n \in 0..MaxReadLen : \E r \in [1..n -> ReadRecords] : \E t \in ReadTails :
        /\ env = [file |-> [records |-> r, tail |-> t]]
        /\ disk = << <<ReadPath, FilePieces(r, t)>> >>

\* base_uf2 = UF2File(); base_uf2.read_uf2(path)
CallReadFile ==
  /\ heap = <<>> /\ uf[B] = UF2File /\ err = ""
  /\ Return(read_uf2(heap, uf[B], read_records(DictGet(disk, ReadPath))), B)

NextRead == CallReadFile

SpecRead == InitRead /\ [][NextRead]_vars

\* a record is valid when its three magics equal their constants
ValidRecord(r) ==
  /\ r.magicStart0 = UF2_MAGIC_START0
  /\ r.magicStart1 = UF2_MAGIC_START1
  /\ r.magicEnd = UF2_MAGIC_END

\* ------------------------------------------------------------------------
\* C16  Reading a file made of N valid and M bad-magic 512-byte records (bad:
\* magic_start_0, magic_start_1 or magic_end differs from its constant) never
\* raises and leaves a container holding exactly the N valid records, in file
\* order.
\* ------------------------------------------------------------------------
C16_SkipBadMagic ==
  [][(CallReadFile /\ env.file.tail = 0) =>
       /\ err' = ""
       /\ Blocks(heap', uf'[B]) = SelectSeq(env.file.records, ValidRecord)]_vars

\* a file of two valid records around a bad one was read
C16_Witness ==
  /\ err = ""
  /\ env.file.tail = 0
  /\ Len(env.file.records) = 3
  /\ ValidRecord(env.file.records[1])
  /\ ~ValidRecord(env.file.records[2])
  /\ ValidRecord(env.file.records[3])
  /\ env.file.records[1] # env.file.records[3]
  /\ Blocks(heap, uf[B]) = <<env.file.records[1], env.file.records[3]>>

\* ------------------------------------------------------------------------
\* C17  When the size of the file is not a multiple of 512, read_uf2 stops at
\* the partial record at the end without raising, and the container holds the
\* valid complete records that precede it.
\* ------------------------------------------------------------------------
C17_PartialRecord ==
  [][(CallReadFile /\ env.file.tail > 0) =>
       /\ err' = ""
       /\ Blocks(heap', uf'[B]) = SelectSeq(env.file.records, ValidRecord)]_vars

\* ------------------------------------------------------------------------
\* C18  When the merged container is written, every block in it has block_no
\* equal to its zero-based position in the container and num_blocks equal to
\* the number of blocks of the container, the blocks of the decoded base as
\* well as the appended ones.
\* ------------------------------------------------------------------------
C18_NumberingWhenWritten ==
  (pc = "done" /\ env.out_path # <<>>) =>
     LET bs == DictGet(disk, env.out_path[1]) IN
     \A i \in 1..Len(bs) : bs[i].blockNo = i - 1 /\ bs[i].numBlocks = Len(bs)

\* ------------------------------------------------------------------------
\* C19  Scan before serialize: in every run of merge_uf2_littlefs, a container
\* that is written to a file has been scanned after its last append or
\* extend.  (scan() recomputes ranges from the blocks and always leaves at
\* least one range, so a container that was never scanned, or not since its
\* blocks changed, is one whose ranges are not those of its blocks.)
\* ------------------------------------------------------------------------
ScannedSinceMutation(c) == uf[c].ranges = scan_ranges(heap, uf[c])

C19_ScanBeforeSerialize ==
  [][/\ (StepSave /\ disk' # disk) => ScannedSinceMutation(L)
     /\ (StepWrite /\ disk' # disk) => ScannedSinceMutation(B)]_vars

\* ------------------------------------------------------------------------
\* C20  extend(blocks) appends the blocks in order and raises at the first
\* block that starts before the end of the block before it; after that the
\* container holds its previous blocks and exactly the blocks of the sequence
\* that precede the offending one.
\* ------------------------------------------------------------------------
C20_ExtendPartial ==
  [][\A ins \in ExtendInputs :
       CallExtend(B, ins) =>
         LET old    == Blocks(heap, uf[B])
             blk(j) == MakeBlock(ins[j][1], ins[j][2], ins[j][3])
             Offends(j) ==
               IF j > 1 THEN blk(j).targetAddr < BlockEnd(blk(j - 1))
               ELSE old # <<>> /\ blk(j).targetAddr < BlockEnd(old[Len(old)])
             bad    == {j \in 1..Len(ins) : Offends(j)}
             k      == IF bad = {} THEN Len(ins) + 1
                       ELSE CHOOSE j \in bad : \A j2 \in bad : j <= j2
         IN /\ err' = IF bad = {} THEN "" ELSE "ValueError"
            /\ Len(uf'[B].data) = Len(old) + k - 1
            /\ \A i \in 1..Len(old) : Blocks(heap', uf'[B])[i] = old[i]
            /\ \A j \in 1..(k - 1) :
                 Blocks(heap', uf'[B])[Len(old) + j]
                   = [blk(j) EXCEPT !.blockNo = Len(old) + j - 1]]_vars

\* an extend was refused at its second block: the container holds its one
\* previous block and the first block of the sequence
C20_Witness ==
  /\ err = "ValueError"
  /\ Len(uf[B].data) = 2
  /\ Len(heap) = 2
  /\ heap[uf[B].data[1]].targetAddr = 0
  /\ heap[uf[B].data[2]].targetAddr = 4096
  /\ heap[uf[B].data[2]].flags = UF2_FAMILY_ID_PRESENT
  /\ heap[uf[B].data[2]].blockNo = 1

\* ------------------------------------------------------------------------
\* C21  A failure of picotool (tool missing or non-zero exit) does not abort
\* merge_uf2_littlefs: the metadata fields keep their defaults and the run
\* still converts the image, merges it into the base, scans and writes.
\* (A run is not held against the claim when it ends for a reason of its own:
\* the assert on chunk_size, or out_path = None with save_littlefs.)
\* ------------------------------------------------------------------------
InspectorFailed ==
  /\ pc \notin {"read_uf2", "add_bin_info"}
  /\ "RP2040" \in DictKeys(uf[B].families)
  /\ env.picotool.kind \in {"OSError", "exit1"}

C21_InspectorFailure ==
  InspectorFailed =>
     /\ uf[B].program_name = "" /\ uf[B].board = ""
     /\ uf[B].binary_start = 0 /\ uf[B].binary_end = 0
     /\ uf[B].drive_start = 0 /\ uf[B].drive_end = 0
     /\ err \notin {"ValueError", "OSError"}

\* ------------------------------------------------------------------------
\* C22  The signature scan records, for each matching block, the index
\* (position) of that block in the container, in container order: every
\* recorded value i is a valid index and block i is the matching block, also
\* for a container read from a file in which bad-magic records were skipped
\* or whose stored block_no fields differ from the positions.
\* ------------------------------------------------------------------------
C22_SignatureIndex ==
  [][\A f \in Files :
       (CallRead(B, f) /\ err' = "") =>
          LET bs == Blocks(heap', uf'[B])
              at == {i \in 1..Len(bs) : bs[i].targetAddr % 4096 = 0 /\ MagicInData(bs[i])}
              found == uf'[B].littlefs_superblocks
          IN /\ Len(found) = Cardinality(at)
             /\ \A k \in 1..Len(found) :
                  /\ found[k] + 1 \in at
                  /\ \A k2 \in 1..(k - 1) : found[k2] < found[k]]_vars

\* ------------------------------------------------------------------------
\* C23  Containers share no mutable state: extending the base with the blocks
\* of the addition leaves the addition unchanged; in particular every block
\* of the addition keeps block_no equal to its index within the addition.
\* ------------------------------------------------------------------------
C23_AdditionUnchanged ==
  [][StepExtend =>
       /\ Blocks(heap', uf'[L]) = Blocks(heap, uf[L])
       /\ \A i \in 1..Len(uf'[L].data) : heap'[uf'[L].data[i]].blockNo = i - 1]_vars

\* ------------------------------------------------------------------------
\* C24  Every block held by a container, whether it was decoded from a file,
\* produced by read_image or appended by the merge, has payload_size <= 476.
\* ------------------------------------------------------------------------
C24_PayloadSizeBound ==
  \A c \in Containers : \A i \in 1..Len(uf[c].data) :
     heap[uf[c].data[i]].payloadSize <= UF2_DATA_SIZE

\* ------------------------------------------------------------------------
\* C25  The range scan of uf2_info and the range scan of uf2_merge are
\* equivalent: started from empty ranges they give the same list of
\* (start, end) ranges for every block sequence, and in both every reported
\* range has start <= end.
\* ------------------------------------------------------------------------
C25_RangeScansAgree ==
  LET info  == info_scan_ranges(<<>>, Blocks(heap, uf[B]))
      merge == scan_ranges(heap, uf[B])
  IN /\ info = merge
     /\ \A i \in 1..Len(info) : info[i][1] <= info[i][2]
     /\ \A i \in 1..Len(merge) : merge[i][1] <= merge[i][2]

\* ------------------------------------------------------------------------
\* C26  Scanning a container with no blocks leaves an empty ranges list, so
\* that the number of reported ranges never exceeds the number of blocks.
\* ------------------------------------------------------------------------
C26_EmptyScan ==
  [][(CallReadFile /\ err' = "") =>
       /\ uf'[B].data = <<>> => uf'[B].ranges = <<>>
       /\ Len(uf'[B].ranges) <= Len(uf'[B].data)]_vars

\* ------------------------------------------------------------------------
\* C27  When merge_uf2_littlefs saves the standalone littlefs container
\* (save_littlefs set) and then writes the merged container, the two are
\* written to different paths: at the end of the run both files exist with
\* their own contents and neither write has overwritten the other.
\* ------------------------------------------------------------------------
C27_DistinctOutputs ==
  (pc = "done" /\ HasAddition /\ env.save_littlefs /\ env.out_path # <<>>) =>
     LET vfs_path == with_suffix(env.out_path[1], ".uf2")
         out_path == env.out_path[1]
     IN /\ vfs_path # out_path
        /\ {vfs_path, out_path} \subseteq DictKeys(disk)
        /\ Len(DictGet(disk, vfs_path)) = Len(uf[L].data)
        /\ Len(DictGet(disk, out_path)) = Len(uf[B].data)

\* ------------------------------------------------------------------------
\* C28  When picotool exits successfully but its output lacks a field
\* (program name, board, binary start or end, drive start or end),
\* add_bin_info leaves that metadata field at its default (empty string or
\* address 0).
\* ------------------------------------------------------------------------
C28_MissingFieldDefault ==
  [][(StepAddBinInfo /\ "RP2040" \in DictKeys(uf[B].families)
        /\ env.picotool.kind = "ok") =>
       LET out == env.picotool.out IN
       /\ out.name = <<>> => uf'[B].program_name = ""
       /\ out.board = <<>> => uf'[B].board = ""
       /\ out.binary_start = <<>> => uf'[B].binary_start = 0
       /\ out.binary_end = <<>> => uf'[B].binary_end = 0
       /\ out.drive_start = <<>> => uf'[B].drive_start = 0
       /\ out.drive_end = <<>> => uf'[B].drive_end = 0]_vars

====
